---- MODULE Spec2Model ----
(***************************************************************************)
(* A model of rolling's.py: backup_files mirrors a source directory tree   *)
(* into a destination tree, copying the files that are absent from the     *)
(* destination or whose digest differs, skipping the files whose full path *)
(* matches an exclusion pattern, and copying access/modification times.    *)
(*                                                                         *)
(* A path is a sequence of name components, a name a sequence of           *)
(* characters, a file's content a sequence of bytes.  One run of           *)
(* backup_files is a sequence of steps, one per change of a tree, so that  *)
(* the states a killed process leaves behind are states of the model.      *)
(* After a completed run the source tree may be edited; the destination is *)
(* written by the runs only.  A time is the name of an instant and the     *)
(* precision of its value: the times the program sets went through a       *)
(* float.  Whether a read moves an access time is the file system's choice *)
(* (mount options, and under relatime the age of the entry's times), taken *)
(* anew at every read.                                                     *)
(***************************************************************************)
EXTENDS Integers, Sequences, FiniteSets, TLC

VARIABLES
    srcKind,      \* what the source path is: "dir", "file" or "absent"
    src,          \* source files: path -> NoFile or [content, atime, mtime]
    srcDirs,      \* source directories: path -> NoDir or [atime, mtime]
    dst,          \* destination files: path -> NoFile or a file
    dstDirs,      \* destination directories: path -> NoDir or a directory
    algorithm,    \* backup_files' argument
    block_size,   \* backup_files' argument
    exclude_patterns, \* backup_files' argument: a list of patterns
    pc,           \* where the current run is
    dirQueue,     \* the directories os.walk has still to yield
    fileQueue,    \* the filenames of the current directory still to handle
    offset,       \* copy_file: the read position in the source file
    total_files,  \* backup_files' counter
    copied_files, \* backup_files' counter
    reported,     \* the counts printed by the final report, or NoReport
    copies,       \* per file, the calls of copy_file that returned in this run
    dst0,         \* dst when the current run started
    dstDirs0,     \* dstDirs when the current run started
    hist,         \* how the previous run ended and the source edits since
    pending,      \* the source edits since the last run ended, in order
    runs,         \* the runs started so far
    edits         \* the source edits made so far

vars == <<srcKind, src, srcDirs, dst, dstDirs, algorithm, block_size,
          exclude_patterns, pc, dirQueue, fileQueue, offset, total_files,
          copied_files, reported, copies, dst0, dstDirs0, hist, pending, runs,
          edits>>

----------------------------------------------------------------------------
(* Bounds of the model. *)

\* the runs of backup_files in one behaviour
MaxRuns == 2
\* the source edits in one behaviour
MaxEdits == 1

----------------------------------------------------------------------------
(* The universe of paths. *)

NameA == <<"a">>
NameB == <<"b">>
Name1 == <<"1", ".", "t", "x", "t">>
\* a name that ends with a newline
Name2 == <<"2", ".", "t", "m", "p", "\n">>
NameTmp == <<"f", ".", "t", "m", "p">>

Root == <<>>
DirA == <<NameA>>
DirAB == <<NameA, NameB>>
File1 == <<NameA, Name1>>
File2 == <<NameA, NameB, Name2>>
FileTmp == <<NameA, NameTmp>>

\* in the order os.walk yields them (top-down)
DirOrder == <<Root, DirA, DirAB>>
FileList == <<File1, FileTmp, File2>>
Dirs == {DirOrder[i] : i \in 1..Len(DirOrder)}
Files == {FileList[i] : i \in 1..Len(FileList)}

\* os.path.abspath(source_dir), as characters
SourceDir == <<"/", "s">>

Bytes == {"x", "y"}
\* a path at which there is no file, no directory

\* a time: the instant, by name, and the precision of the value.  "float"
\* is a value a Python float holds exactly (a whole second, a time set from
\* a float); "clock" is a value as the kernel's clock gave it, with
\* nanoseconds, which a float holds exactly only by accident
Time(at, prec) == [at |-> at, prec |-> prec]
NoTime == Time("none", "float")
Now == Time("now", "clock")

NoFile ==
    [exists |-> FALSE, content |-> <<>>, atime |-> NoTime, mtime |-> NoTime]
NoDir == [exists |-> FALSE, atime |-> NoTime, mtime |-> NoTime]
NoReport == <<>>

Parent(p) == SubSeq(p, 1, Len(p) - 1)
\* a directory and its ancestors (what os.makedirs creates)
Ancestors(d) == {SubSeq(d, 1, n) : n \in 0..Len(d)}

----------------------------------------------------------------------------
(* get_file_hash.  The digest is an ideal fingerprint: the algorithm's     *)
(* name and the bytes fed to it, so that two digests are equal exactly     *)
(* when the algorithm and the content are.                                 *)

\* the default of --block-size
DefaultBlockSize == 4096
\* the block sizes a run may be given: int(sys.argv[i + 1]) is not checked
BlockSizes == {-2, -1, 0, 1, DefaultBlockSize}

Supported == {"sha256", "blake3"}
Algorithms == Supported \cup {"md5"}
HashError == <<"ValueError", <<>>>>

\* the chunk size of get_file_hash's read loop
HashChunk == 4096

\* f.read(n) at position off of a file holding content: n >= 0 reads at
\* most n bytes, n = -1 reads to the end
Read(content, off, n) ==
    LET rest == Len(content) - off
        k == IF n = -1 \/ n > rest THEN rest ELSE n
    IN  SubSeq(content, off + 1, off + k)

\* the while loop of get_file_hash: update the accumulator chunk by chunk
RECURSIVE HashUpdate(_, _, _)
HashUpdate(acc, content, off) ==
    LET chunk == Read(content, off, HashChunk)
    IN  IF chunk = <<>> THEN acc
        ELSE HashUpdate(acc \o chunk, content, off + Len(chunk))

get_file_hash(content, alg) ==
    IF alg \in Supported
    THEN <<alg, HashUpdate(<<>>, content, 0)>>
    ELSE HashError

----------------------------------------------------------------------------
(* should_exclude.  A pattern is a literal, optionally followed by $       *)
(* (\.tmp$); re.search looks for it anywhere in the path, and $ matches at *)
(* the end of the path and before a newline that ends the path.            *)

PatTmp == [lit |-> <<".", "t", "m", "p">>, atEnd |-> TRUE]
PatB == [lit |-> <<"/", "b", "/">>, atEnd |-> FALSE]
ExcludeLists == {<<>>, <<PatTmp>>, <<PatB, PatTmp>>}

RECURSIVE JoinPath(_, _)
\* os.path.join(base, c1, c2, ...)
JoinPath(base, comps) ==
    IF comps = <<>> THEN base
    ELSE JoinPath(base \o <<"/">> \o Head(comps), Tail(comps))

\* os.path.join(dirpath, filename) for the file at rel under source_dir
SourcePath(rel) == JoinPath(SourceDir, rel)

re_search(pattern, path) ==
    \E i \in 1..(Len(path) - Len(pattern.lit) + 1) :
        LET end == i + Len(pattern.lit) - 1
        IN  /\ SubSeq(path, i, end) = pattern.lit
            /\ pattern.atEnd =>
                   \/ end = Len(path)
                   \/ end = Len(path) - 1 /\ path[Len(path)] = "\n"

should_exclude(path, patterns) ==
    \E k \in 1..Len(patterns) : re_search(patterns[k], path)

Excluded(rel) == should_exclude(SourcePath(rel), exclude_patterns)

----------------------------------------------------------------------------
(* The file systems. *)

\* "now" is the time of an access by the run itself; the times of the
\* initial trees are float values, the time of an edit is the clock's
NowStamp == [exists |-> TRUE, atime |-> Now, mtime |-> Now]
OldStamp ==
    [exists |-> TRUE, atime |-> Time("t0", "float"),
     mtime |-> Time("t0", "float")]
SrcStamp ==
    [exists |-> TRUE, atime |-> Time("t2", "float"),
     mtime |-> Time("t1", "float")]
SrcDirStamp == SrcStamp
EditTime == Time("t3", "clock")

\* st_atime, st_mtime: the time as a float, and the time os.utime sets from
\* that float.  A float value comes back as it is; a clock value comes
\* back as the float next to it, or as it is when a float holds it
AsFloat(time) ==
    IF time.prec = "float" THEN {time}
    ELSE {time, Time(time.at, "float")}

\* os.stat(path): the two times of the entry, as floats
Stat(entry) ==
    {[atime |-> a, mtime |-> m] :
        a \in AsFloat(entry.atime), m \in AsFloat(entry.mtime)}

MkFile(content, stamp) ==
    [exists |-> TRUE, content |-> content, atime |-> stamp.atime,
     mtime |-> stamp.mtime]

\* the content of each source file in the initial state, when it exists
Content0(f) ==
    CASE f = File1 -> <<"x", "y">>
      [] f = FileTmp -> <<"y">>
      [] OTHER -> <<>>

\* a content other than Content0(f)
Stale0(f) ==
    CASE f = File1 -> <<"x">>
      [] f = FileTmp -> <<"x">>
      [] OTHER -> <<"y">>

OtherByte(b) == CHOOSE c \in Bytes : c # b

\* the directories a set of files needs
DirsOf(fs) == UNION {Ancestors(Parent(f)) : f \in fs}

\* the destination trees of the initial state: no destination, an empty
\* one, one holding a stale version of every file, one holding a copy of
\* every file made at another time
InitDst ==
    {[f \in Files |-> NoFile],
     [f \in Files |-> MkFile(Stale0(f), OldStamp)],
     [f \in Files |-> MkFile(Content0(f), OldStamp)]}

\* the source trees of the initial state: any of the files of a/, or
\* the file of a/b/ alone below its two directories
InitSrc == {fs \in SUBSET Files : File2 \in fs => fs = {File2}}

SrcFiles == {f \in Files : src[f].exists}
Included == {f \in SrcFiles : ~Excluded(f)}

\* a file is read, a directory is listed: the outcomes for the entry.  The
\* file system keeps its access time or makes it the present (noatime,
\* relatime with an access time newer than the entry's last change, and
\* otherwise), whatever it did at the read before
ReadOf(entry) ==
    IF entry.exists THEN {entry, [entry EXCEPT !.atime = Now]}
    ELSE {entry}

\* os.path.exists(dest_file)
DstExists(f) == dst[f].exists
\* os.path.exists(target_dirpath)
DirExists(d) == dstDirs[d].exists

\* an entry is created in directory d: d's modification time is the present
AddEntry(dd, d) == [dd EXCEPT ![d].mtime = Now]

\* os.makedirs(d) and os.makedirs(d, exist_ok=True), called when d is
\* missing or with exist_ok: d and its missing ancestors are created, and
\* a directory that gets a new entry gets a new modification time
MakeDirs(dd, d) ==
    [x \in Dirs |->
        IF x \in Ancestors(d) /\ ~dd[x].exists THEN NowStamp
        ELSE IF /\ dd[x].exists
                /\ \E c \in Ancestors(d) :
                      c # Root /\ Parent(c) = x /\ ~dd[c].exists
             THEN [dd[x] EXCEPT !.mtime = Now]
        ELSE dd[x]]

\* os.utime(dest_dir, (stat_info.st_atime, stat_info.st_mtime)), where
\* stat_info holds the floats of os.stat(source_dir); os.setctime does not
\* exist, and the AttributeError is passed over
copy_directory_metadata(dd, d, stat_info) ==
    [dd EXCEPT ![d].atime = stat_info.atime, ![d].mtime = stat_info.mtime]

\* open(dest_file, 'wb'): the file is created, or truncated
OpenForWrite(file) ==
    IF ~file.exists THEN MkFile(<<>>, NowStamp)
    ELSE [file EXCEPT !.content = <<>>, !.mtime = Now]

\* a bug: the two times are passed in the wrong order
UTimeSwapped(file, stat_info) ==
    [file EXCEPT !.atime = stat_info.mtime, !.mtime = stat_info.atime]

\* os.utime(dest_file, (stat_info.st_atime, stat_info.st_mtime)), where
\* stat_info holds the floats of os.stat(source_file)
UTime(file, stat_info) ==
    [file EXCEPT !.atime = stat_info.atime, !.mtime = stat_info.mtime]

\* the condition of the if that guards copy_file: "copy", "skip", or the
\* error get_file_hash raises (before it opens the file)
Decision(f) ==
    IF ~DstExists(f) THEN "copy"
    ELSE IF get_file_hash(dst[f].content, algorithm) = HashError THEN "error"
    ELSE IF get_file_hash(dst[f].content, algorithm)
              # get_file_hash(src[f].content, algorithm) THEN "copy"
    ELSE "skip"

\* a bug: the walk does not descend below the first level
WalkOneLevel ==
    SelectSeq(DirOrder, LAMBDA d : srcDirs[d].exists /\ Len(d) <= 1)

\* the directories os.walk yields, top-down
WalkOrder == SelectSeq(DirOrder, LAMBDA d : srcDirs[d].exists)

\* a bug: the names of the files the destination holds are listed too
FilesInEither(d) ==
    {f \in Files : Parent(f) = d /\ (src[f].exists \/ dst[f].exists)}

\* the filenames os.walk lists for directory d
FilesIn(d) == {f \in Files : Parent(f) = d /\ src[f].exists}

\* the orders in which the file system may list a set of names
Listings(names) ==
    {order \in [1..Cardinality(names) -> names] :
        \A i, j \in 1..Cardinality(names) : order[i] = order[j] => i = j}

\* a bug: the source is only checked to exist
SourceExists == srcKind # "absent"

\* os.path.exists(source_dir) and os.path.isdir(source_dir)
SourceIsDir == srcKind = "dir"

\* a bug: the counter is incremented after the exclusion test
CountIncluded(n) == IF Excluded(Head(fileQueue)) THEN n ELSE n + 1

\* total_files += 1
CountFile(n) == n + 1

Running ==
    {"rootmeta", "walk", "mkdir", "dirmeta", "hashsrc", "open", "copy",
     "write", "utime"}
NoHist == [prev |-> "none", edits |-> <<>>]
Ended == {"done", "aborted", "error", "returned"}

----------------------------------------------------------------------------
Init ==
    /\ srcKind \in {"dir", "file", "absent"}
    /\ \E present \in InitSrc :
          /\ srcKind # "dir" => present = {}
          /\ src = [f \in Files |->
                      IF f \in present THEN MkFile(Content0(f), SrcStamp)
                      ELSE NoFile]
          /\ srcDirs = [d \in Dirs |->
                          IF /\ srcKind = "dir"
                             /\ d \in DirsOf(present) \cup {Root}
                          THEN SrcDirStamp ELSE NoDir]
    /\ dst \in InitDst
    /\ \E root \in BOOLEAN :
          LET need == DirsOf({f \in Files : dst[f].exists})
          IN  dstDirs = [d \in Dirs |->
                            IF d \in need \/ (root /\ d = Root)
                            THEN OldStamp ELSE NoDir]
    /\ algorithm \in Algorithms
    /\ block_size \in BlockSizes
    /\ exclude_patterns \in ExcludeLists
    /\ pc = "idle"
    /\ dirQueue = <<>>
    /\ fileQueue = <<>>
    /\ offset = 0
    /\ total_files = 0
    /\ copied_files = 0
    /\ reported = NoReport
    /\ copies = [f \in Files |-> 0]
    /\ dst0 = dst
    /\ dstDirs0 = dstDirs
    /\ hist = NoHist
    /\ pending = <<>>
    /\ runs = 0
    /\ edits = 0

\* what no step of a run changes
Args == <<srcKind, algorithm, block_size, exclude_patterns>>
\* the history of the runs
Hist == <<dst0, dstDirs0, hist, pending, runs, edits>>

\* backup_files up to os.makedirs(dest_dir): the source check, the creation
\* of the destination root, the counters
StartRun ==
    /\ pc \in Ended \cup {"idle"}
    /\ runs < MaxRuns
    /\ runs' = runs + 1
    /\ hist' = [prev |-> IF pc = "idle" THEN "none" ELSE pc, edits |-> pending]
    /\ pending' = <<>>
    /\ dst0' = dst
    /\ dstDirs0' = dstDirs
    /\ copies' = [f \in Files |-> 0]
    /\ reported' = NoReport
    /\ offset' = 0
    /\ fileQueue' = <<>>
    /\ IF ~SourceIsDir
       THEN /\ pc' = "returned"
            /\ UNCHANGED <<dstDirs, dirQueue, total_files, copied_files>>
       ELSE /\ IF DirExists(Root)
               THEN dstDirs' = dstDirs /\ pc' = "walk"
               ELSE dstDirs' = MakeDirs(dstDirs, Root) /\ pc' = "rootmeta"
            /\ total_files' = 0
            /\ copied_files' = 0
            /\ dirQueue' = WalkOrder
    /\ UNCHANGED <<Args, src, srcDirs, dst, edits>>

\* copy_directory_metadata(source_dir, dest_dir) for the root just created
RootMeta ==
    /\ pc = "rootmeta"
    /\ \E stat_info \in Stat(srcDirs[Root]) :
          dstDirs' = copy_directory_metadata(dstDirs, Root, stat_info)
    /\ pc' = "walk"
    /\ UNCHANGED <<Args, Hist, src, srcDirs, dst, dirQueue, fileQueue, offset,
                   total_files, copied_files, reported, copies>>

\* os.walk lists the next directory, in the order the file system gives;
\* the loop body finds the target directory there or missing
VisitDir ==
    /\ pc = "walk"
    /\ fileQueue = <<>>
    /\ dirQueue # <<>>
    /\ LET d == Head(dirQueue)
       IN  /\ \E listed \in ReadOf(srcDirs[d]) :
                 srcDirs' = [srcDirs EXCEPT ![d] = listed]
           /\ fileQueue' \in Listings(FilesIn(d))
           /\ IF DirExists(d)
              THEN dirQueue' = Tail(dirQueue) /\ pc' = "walk"
              ELSE dirQueue' = dirQueue /\ pc' = "mkdir"
    /\ UNCHANGED <<Args, Hist, src, dst, dstDirs, offset, total_files,
                   copied_files, reported, copies>>

\* os.makedirs(target_dirpath) for the target that is missing
MakeTarget ==
    /\ pc = "mkdir"
    /\ dstDirs' = MakeDirs(dstDirs, Head(dirQueue))
    /\ pc' = "dirmeta"
    /\ UNCHANGED <<Args, Hist, src, srcDirs, dst, dirQueue, fileQueue, offset,
                   total_files, copied_files, reported, copies>>

\* copy_directory_metadata(dirpath, target_dirpath) for the target just
\* created
DirMeta ==
    /\ pc = "dirmeta"
    /\ LET d == Head(dirQueue)
       IN  \E stat_info \in Stat(srcDirs[d]) :
              dstDirs' = copy_directory_metadata(dstDirs, d, stat_info)
    /\ dirQueue' = Tail(dirQueue)
    /\ pc' = "walk"
    /\ UNCHANGED <<Args, Hist, src, srcDirs, dst, fileQueue, offset,
                   total_files, copied_files, reported, copies>>

\* one iteration of the for loop over filenames, up to the first change of
\* a tree: a file missing from the destination is created by copy_file's
\* open, a file found there is read by get_file_hash, unless get_file_hash
\* raises (which it does before it opens the file)
VisitFile ==
    /\ pc = "walk"
    /\ fileQueue # <<>>
    /\ total_files' = CountFile(total_files)
    /\ LET f == Head(fileQueue)
           dirs == MakeDirs(dstDirs, Parent(f))
       IN  IF Excluded(f)
           THEN /\ fileQueue' = Tail(fileQueue)
                /\ UNCHANGED <<dst, dstDirs, pc>>
           ELSE CASE ~DstExists(f) ->
                      /\ dst' = [dst EXCEPT ![f] = OpenForWrite(@)]
                      /\ dstDirs' = AddEntry(dirs, Parent(f))
                      /\ pc' = "copy"
                      /\ UNCHANGED fileQueue
                  [] DstExists(f) /\ Decision(f) = "error" ->
                      /\ dstDirs' = dirs
                      /\ pc' = "error"
                      /\ UNCHANGED <<dst, fileQueue>>
                  [] OTHER ->
                      /\ \E hashed \in ReadOf(dst[f]) :
                            dst' = [dst EXCEPT ![f] = hashed]
                      /\ dstDirs' = dirs
                      /\ pc' = "hashsrc"
                      /\ UNCHANGED fileQueue
    /\ offset' = 0
    /\ UNCHANGED <<Args, Hist, src, srcDirs, dirQueue, copied_files, reported,
                   copies>>

\* get_file_hash(source_file, ...) and the comparison of the two digests
HashSource ==
    /\ pc = "hashsrc"
    /\ LET f == Head(fileQueue)
       IN  /\ \E hashed \in ReadOf(src[f]) :
                 src' = [src EXCEPT ![f] = hashed]
           /\ IF Decision(f) = "skip"
              THEN fileQueue' = Tail(fileQueue) /\ pc' = "walk"
              ELSE fileQueue' = fileQueue /\ pc' = "open"
    /\ UNCHANGED <<Args, Hist, srcDirs, dst, dstDirs, dirQueue, offset,
                   total_files, copied_files, reported, copies>>

\* copy_file: open(dest_file, 'wb') truncates the file that differs
OpenDest ==
    /\ pc = "open"
    /\ dst' = [dst EXCEPT ![Head(fileQueue)] = OpenForWrite(@)]
    /\ pc' = "copy"
    /\ UNCHANGED <<Args, Hist, src, srcDirs, dstDirs, dirQueue, fileQueue,
                   offset, total_files, copied_files, reported, copies>>

\* copy_file: src.read(block_size) returns a chunk that is not empty
CopyChunk ==
    /\ pc = "copy"
    /\ block_size >= -1
    /\ LET f == Head(fileQueue)
       IN  /\ Read(src[f].content, offset, block_size) # <<>>
           /\ \E read \in ReadOf(src[f]) :
                 src' = [src EXCEPT ![f] = read]
    /\ pc' = "write"
    /\ UNCHANGED <<Args, Hist, srcDirs, dst, dstDirs, dirQueue, fileQueue,
                   offset, total_files, copied_files, reported, copies>>

\* copy_file: dst.write(chunk), for the chunk just read; the chunk goes to
\* the buffer of the file object
CopyWrite ==
    /\ pc = "write"
    /\ LET f == Head(fileQueue)
           chunk == Read(src[f].content, offset, block_size)
       IN  /\ dst' = [dst EXCEPT ![f].content = @ \o chunk]
           /\ offset' = offset + Len(chunk)
    /\ pc' = "copy"
    /\ UNCHANGED <<Args, Hist, src, srcDirs, dstDirs, dirQueue, fileQueue,
                   total_files, copied_files, reported, copies>>

\* copy_file: the read that ends the loop (read(0) reads nothing) and the
\* end of the with statement, which closes the two files
CopyEnd ==
    /\ pc = "copy"
    /\ block_size >= -1
    /\ LET f == Head(fileQueue)
       IN  /\ Read(src[f].content, offset, block_size) = <<>>
           /\ \E read \in IF block_size = 0 THEN {src[f]} ELSE ReadOf(src[f]) :
                 src' = [src EXCEPT ![f] = read]
    /\ pc' = "utime"
    /\ UNCHANGED <<Args, Hist, srcDirs, dst, dstDirs, dirQueue, fileQueue,
                   offset, total_files, copied_files, reported, copies>>

\* copy_file: the times of the source file, as floats, are given to the
\* destination file; copy_file returns, and the file is counted
CopyDone ==
    /\ pc = "utime"
    /\ LET f == Head(fileQueue)
       IN  /\ \E stat_info \in Stat(src[f]) :
                 dst' = [dst EXCEPT ![f] = UTime(@, stat_info)]
           /\ copies' = [copies EXCEPT ![f] = @ + 1]
    /\ copied_files' = copied_files + 1
    /\ fileQueue' = Tail(fileQueue)
    /\ pc' = "walk"
    /\ UNCHANGED <<Args, Hist, src, srcDirs, dstDirs, dirQueue, offset,
                   total_files, reported>>

\* copy_file: src.read(block_size) raises ValueError for a size below -1;
\* the destination file has been opened, and stays empty
CopyReadError ==
    /\ pc = "copy"
    /\ block_size < -1
    /\ pc' = "error"
    /\ UNCHANGED <<Args, Hist, src, srcDirs, dst, dstDirs, dirQueue, fileQueue,
                   offset, total_files, copied_files, reported, copies>>

\* the end of the walk: the report
Finish ==
    /\ pc = "walk"
    /\ fileQueue = <<>>
    /\ dirQueue = <<>>
    /\ reported' = <<copied_files, total_files>>
    /\ pc' = "done"
    /\ UNCHANGED <<Args, Hist, src, srcDirs, dst, dstDirs, dirQueue, fileQueue,
                   offset, total_files, copied_files, copies>>

\* what is left of a process that has exited: nothing but the two trees
Forgotten ==
    /\ dirQueue' = <<>>
    /\ fileQueue' = <<>>
    /\ offset' = 0
    /\ total_files' = 0
    /\ copied_files' = 0
    /\ reported' = NoReport
    /\ copies' = [f \in Files |-> 0]
    /\ dst0' = dst'
    /\ dstDirs0' = dstDirs'
    /\ hist' = NoHist

\* an I/O operation raises, or the process is killed outside copy_file's
\* with statement: the run ends where it is, with whatever it has written
\* so far (the with statement closes the destination file, which writes
\* its buffer)
Abort ==
    /\ pc \in Running
    /\ pc' = "aborted"
    /\ UNCHANGED <<Args, src, srcDirs, dst, dstDirs, pending, runs, edits>>
    /\ Forgotten

\* the process is killed inside copy_file's with statement: the chunks
\* written so far are in the buffer of the file object, and are lost
Kill ==
    /\ pc \in {"copy", "write"}
    /\ offset > 0
    /\ dst' = [dst EXCEPT ![Head(fileQueue)].content = <<>>]
    /\ pc' = "aborted"
    /\ UNCHANGED <<Args, src, srcDirs, dstDirs, pending, runs, edits>>
    /\ Forgotten

----------------------------------------------------------------------------
(* Edits of the source tree between two runs. *)

\* an edit follows a run that completed
CanEdit ==
    /\ pc = "done"
    /\ srcKind = "dir"
    /\ runs < MaxRuns
    /\ edits < MaxEdits

\* an edit leaves the destination alone; the process of the last run is gone
EditFrame ==
    /\ edits' = edits + 1
    /\ UNCHANGED <<Args, dst, dstDirs, pc, runs>>
    /\ Forgotten

\* one byte of a source file is changed
Modify ==
    /\ CanEdit
    /\ \E f \in SrcFiles : \E i \in 1..Len(src[f].content) :
          /\ src' = [src EXCEPT ![f].content[i] = OtherByte(@),
                                ![f].mtime = EditTime]
          /\ pending' = Append(pending, <<"modify", f>>)
    /\ UNCHANGED srcDirs
    /\ EditFrame

\* the times of a source file are changed, its content is not
Touch ==
    /\ CanEdit
    /\ \E f \in SrcFiles :
          /\ src' = [src EXCEPT ![f].atime = EditTime, ![f].mtime = EditTime]
          /\ pending' = Append(pending, <<"touch", f>>)
    /\ UNCHANGED srcDirs
    /\ EditFrame

\* a source file is removed
Remove ==
    /\ CanEdit
    /\ \E f \in SrcFiles :
          /\ src' = [src EXCEPT ![f] = NoFile]
          /\ srcDirs' = [srcDirs EXCEPT ![Parent(f)].mtime = EditTime]
          /\ pending' = Append(pending, <<"remove", f>>)
    /\ EditFrame

Next ==
    \/ StartRun
    \/ RootMeta
    \/ VisitDir
    \/ MakeTarget
    \/ DirMeta
    \/ VisitFile
    \/ HashSource
    \/ OpenDest
    \/ CopyChunk
    \/ CopyWrite
    \/ CopyEnd
    \/ CopyDone
    \/ CopyReadError
    \/ Finish
    \/ Abort
    \/ Kill
    \/ Modify
    \/ Touch
    \/ Remove

Spec == Init /\ [][Next]_vars

----------------------------------------------------------------------------
(* The properties. *)

\* the run has ended with its report and the source is as the run saw it
Completed == pc = "done" /\ pending = <<>>
\* the content of f's destination file equals that of its source file
SameContent(f) == dst[f].exists /\ dst[f].content = src[f].content
\* when the current run started, f's destination file was absent or held
\* another content than the source file
Differed(f) == ~dst0[f].exists \/ dst0[f].content # src[f].content
\* the current run follows a completed run
AfterDone ==
    /\ pc \in Running \cup {"done", "error"}
    /\ hist.prev = "done"
    /\ pending = <<>>
\* the current run has not written f's destination file (a read may have
\* moved its access time)
NotWritten(f) ==
    /\ dst[f].exists = dst0[f].exists
    /\ dst[f].content = dst0[f].content
    /\ dst[f].mtime = dst0[f].mtime
\* the block size makes src.read return the bytes of the file
Transfers == block_size >= 1 \/ block_size = -1

\* C1 (convergence): after a run that completes without error, every source
\* file that matches no exclusion pattern has a destination file of the same
\* content, hence of the same digest under the configured algorithm.
C1_Convergence ==
    Completed =>
        \A f \in Included :
            /\ SameContent(f)
            /\ algorithm \in Supported =>
                   get_file_hash(dst[f].content, algorithm)
                       = get_file_hash(src[f].content, algorithm)

\* convergence holds of the runs whose block size is positive or -1
C1_ConvergenceWhenTransfers == Transfers => C1_Convergence

\* C2 (idempotence): a run that follows a completed run, with the same
\* arguments and no change of the source in between, copies no file and
\* leaves the content of every destination file as it was.
C2_Idempotence ==
    (AfterDone /\ hist.edits = <<>>) =>
        /\ copied_files = 0
        /\ \A f \in Files :
              /\ dst[f].exists = dst0[f].exists
              /\ dst[f].content = dst0[f].content
        /\ pc = "done" => reported = <<0, total_files>>

\* idempotence holds of the runs whose block size is positive or -1
C2_IdempotenceWhenTransfers == Transfers => C2_Idempotence

\* C3 (change detection): when exactly one source file, not excluded, was
\* modified after a completed run, the next run copies that file and only
\* that file, and writes no other destination file.
C3_ChangeDetection ==
    \A f \in Files :
        (AfterDone /\ hist.edits = <<<<"modify", f>>>> /\ ~Excluded(f)) =>
            /\ \A g \in Files \ {f} : NotWritten(g)
            /\ pc = "done" =>
                 /\ copied_files = 1
                 /\ copies = [g \in Files |-> IF g = f THEN 1 ELSE 0]

\* change detection holds of the runs whose block size is positive or -1
C3_ChangeDetectionWhenTransfers == Transfers => C3_ChangeDetection

\* C4 (exclusion): a source file whose full path matches an exclusion
\* pattern is neither created nor overwritten in the destination by a run,
\* the first one included, and it is counted in total_files.
C4_Exclusion ==
    /\ pc # "idle" =>
          \A f \in Files : Excluded(f) => dst[f] = dst0[f]
    /\ Completed =>
          total_files = Cardinality(Included) + Cardinality(SrcFiles \ Included)

\* scenario C: a first run into an empty destination with a/f.tmp excluded
C4_Witness ==
    /\ Completed
    /\ hist.prev = "none"
    /\ FileTmp \in SrcFiles /\ Excluded(FileTmp)
    /\ ~dst[FileTmp].exists
    /\ copied_files >= 1
    /\ total_files = copied_files + 1

\* C5 as stated (timestamps): after a run that completes without error, the
\* destination file of every source file that is not excluded has the
\* source file's access and modification times, copied in that run or not
\* (stated here of the runs with a positive block size).
C5_TimestampsAlways ==
    (Completed /\ block_size >= 1) =>
        \A f \in Included :
            /\ dst[f].atime = src[f].atime
            /\ dst[f].mtime = src[f].mtime

\* C5 as amended: after a run that completes without error, the destination
\* file of every source file the run copied has the source file's access
\* and modification times as a float holds them (the same time when a float
\* holds it exactly, the float next to it otherwise), and the destination
\* file of a file the run judged unchanged has the content and the
\* modification time it had when the run started.
C5_TimestampsOfCopied ==
    Completed =>
        \A f \in Included :
            /\ copies[f] >= 1 =>
                  /\ dst[f].atime \in AsFloat(src[f].atime)
                  /\ dst[f].mtime \in AsFloat(src[f].mtime)
                  /\ src[f].atime.prec = "float" =>
                         dst[f].atime = src[f].atime
                  /\ src[f].mtime.prec = "float" =>
                         dst[f].mtime = src[f].mtime
            /\ copies[f] = 0 => NotWritten(f)

\* a completed run copied File1, whose modification time was the clock's
\* and reached the destination as the float next to it, and judged FileTmp
\* unchanged
C5_Witness ==
    /\ Completed
    /\ copies[File1] = 1
    /\ src[File1].mtime.prec = "clock"
    /\ dst[File1].mtime = Time(src[File1].mtime.at, "float")
    /\ FileTmp \in Included
    /\ copies[FileTmp] = 0
    /\ dst[FileTmp].mtime = dst0[FileTmp].mtime

\* C6 as stated (unsupported algorithm): a run started with an algorithm
\* that is neither sha256 nor blake3 creates and overwrites no destination
\* file, whatever the destination held (stated here of the runs with a
\* positive block size).
C6_NoCopyWhenUnsupported ==
    (pc # "idle" /\ algorithm \notin Supported /\ block_size >= 1) =>
        /\ \A f \in Files : dst[f] = dst0[f]
        /\ copied_files = 0

\* C7 (source not found): when the source path is missing or is not a
\* directory, the run returns with the destination as it was: no root, no
\* directory, no file is created, and nothing is reported.
C7_SourceNotFound ==
    (pc # "idle" /\ srcKind # "dir") =>
        /\ pc = "returned"
        /\ dst = dst0
        /\ dstDirs = dstDirs0
        /\ reported = NoReport

\* a run on a missing source and a missing destination has returned
C7_Witness ==
    /\ pc = "returned"
    /\ srcKind = "absent"
    /\ ~dstDirs[Root].exists
    /\ runs = 1

\* C8 (no deletion): no step removes a destination file or directory, and
\* a destination file that has no source counterpart keeps its content.
C8_NoDeletion ==
    [][/\ \A f \in Files : dst[f].exists => dst'[f].exists
       /\ \A d \in Dirs : dstDirs[d].exists => dstDirs'[d].exists
       /\ \A f \in Files :
             (dst[f].exists /\ ~src[f].exists) => dst'[f] = dst[f]]_vars

\* a run completed after File1 was removed from the source; the
\* destination still holds the File1 the run before had copied
C8_Witness ==
    /\ AfterDone /\ hist.edits = <<<<"remove", File1>>>>
    /\ Completed
    /\ ~src[File1].exists
    /\ dst[File1].exists /\ dst[File1].content = Content0(File1)
    /\ total_files >= 1

\* C9 (recovery): when a run was aborted and the source is unchanged, the
\* next run that completes leaves every source file that is not excluded
\* with a destination file of the same content, and it copies every file
\* the aborted run left absent or with another content.
C9_Recovery ==
    (Completed /\ hist.prev \in {"aborted", "error"} /\ hist.edits = <<>>) =>
        \A f \in Included :
            /\ SameContent(f)
            /\ Differed(f) => copies[f] = 1

\* recovery holds of the runs whose block size is positive or -1
C9_RecoveryWhenTransfers == Transfers => C9_Recovery

\* C10 (statistics): copied_files never exceeds total_files and neither
\* decreases during a run; when the run completes, total_files is the number
\* of source files, excluded ones included, copied_files is the number of
\* files not excluded that were absent or different when the run came to
\* them, each copied once, and these two counts are the report.
C10_Statistics ==
    /\ [](copied_files <= total_files)
    /\ [][(pc \in Running /\ pc' \in Running \cup {"done", "error"}) =>
             /\ total_files' >= total_files
             /\ copied_files' >= copied_files]_vars
    /\ [](Completed =>
             /\ total_files = Cardinality(SrcFiles)
             /\ copied_files = Cardinality({f \in Included : Differed(f)})
             /\ \A f \in Files :
                   copies[f] = IF f \in Included /\ Differed(f) THEN 1 ELSE 0
             /\ reported = <<copied_files, total_files>>)

\* scenario A: a first run of two files into an empty destination, nothing
\* excluded, reports total 2, copied 2
C10_Witness ==
    /\ Completed
    /\ hist.prev = "none"
    /\ SrcFiles = {File1, FileTmp}
    /\ exclude_patterns = <<>>
    /\ \A f \in Files : ~dst0[f].exists
    /\ reported = <<2, 2>>
    /\ Transfers
    /\ SameContent(File1) /\ SameContent(FileTmp)

====
